---- MODULE Spec2Model ----
(***************************************************************************)
(* A model of ttax's tt_einsum compiler (src/ttax/compile.py) and of the   *)
(* two operations src/ttax/ops.py compiles with it, multiply and           *)
(* flat_inner.                                                             *)
(*                                                                         *)
(* A label is a one-character string, an index group (one string of a      *)
(* tt_einsum_core) is a sequence of labels, a tt_einsum_core a sequence of *)
(* groups, and a tt_einsum the record [type, args, res].  A Python dict    *)
(* that is shared by reference lives in the variable templates and is      *)
(* referred to by the name of the operation that owns it.                  *)
(***************************************************************************)
EXTENDS Integers, Sequences, FiniteSets, TLC

\* ------------------------------------------------------------------------
\* Strings and descriptors
\* ------------------------------------------------------------------------

\* string.ascii_lowercase
ascii_lowercase ==
  << "a", "b", "c", "d", "e", "f", "g", "h", "i", "j", "k", "l", "m",
     "n", "o", "p", "q", "r", "s", "t", "u", "v", "w", "x", "y", "z" >>

Range(s) == { s[i] : i \in DOMAIN s }

RECURSIVE Concat(_)
\* ''.join(strs): the strings of a sequence, one after another
Concat(strs) ==
  IF strs = << >> THEN << >> ELSE Head(strs) \o Concat(Tail(strs))

RECURSIVE JoinTerms(_)
\* ','.join(['...' + a for a in terms])
JoinTerms(terms) ==
  IF terms = << >> THEN << >>
  ELSE << ".", ".", "." >> \o Head(terms)
       \o (IF Len(terms) > 1 THEN << "," >> ELSE << >>)
       \o JoinTerms(Tail(terms))

RECURSIVE Terms(_)
\* for arg in args: ''.join(arg)
Terms(args) ==
  IF args = << >> THEN << >> ELSE << Concat(Head(args)) >> \o Terms(Tail(args))

\* tt_to_vanilla_einsum: the einsum string, as its sequence of characters
tt_to_vanilla_einsum(tt_einsum) ==
  JoinTerms(Terms(tt_einsum.args))
    \o << "-", ">", ".", ".", "." >> \o Concat(tt_einsum.res)

\* mapping.get(l, l); a mapping is a function from labels to strings
MapGet(mapping, l) == IF l \in DOMAIN mapping THEN mapping[l] ELSE << l >>

RECURSIVE MapString(_, _)
\* for l in str: curr_str += mapping.get(l, l)
MapString(str, mapping) ==
  IF str = << >> THEN << >>
  ELSE MapGet(mapping, Head(str)) \o MapString(Tail(str), mapping)

RECURSIVE apply_single_mapping(_, _)
\* apply_single_mapping: every label of every string replaced by its image
apply_single_mapping(strings, mapping) ==
  IF strings = << >> THEN << >>
  ELSE << MapString(Head(strings), mapping) >>
       \o apply_single_mapping(Tail(strings), mapping)

RECURSIVE MapArgs(_, _)
\* for arg in tt_einsum['args']: new_args.append(apply_single_mapping(arg, mapping))
MapArgs(args, mapping) ==
  IF args = << >> THEN << >>
  ELSE << apply_single_mapping(Head(args), mapping) >> \o MapArgs(Tail(args), mapping)

\* apply_mapping: the value the dict holds after the call.  The call assigns
\* to the dict it is given, so the caller stores this value back wherever
\* that dict is shared.
apply_mapping(tt_einsum, mapping) ==
  [tt_einsum EXCEPT
     !.args = MapArgs(tt_einsum.args, mapping),
     !.res = apply_single_mapping(tt_einsum.res, mapping)]

\* [l for l in s if pred]: the subsequence of the characters in the set keep
RECURSIVE Filter(_, _)
Filter(s, keep) ==
  IF s = << >> THEN << >>
  ELSE (IF Head(s) \in keep THEN << Head(s) >> ELSE << >>)
       \o Filter(Tail(s), keep)

\* [l for l in ascii_lowercase if l not in einsum]
vacant_letters(einsum) ==
  Filter(ascii_lowercase, Range(ascii_lowercase) \ Range(einsum))

\* [l for l in curr_einsum if l in ascii_lowercase]: every occurrence of a
\* letter, in order, repetitions included
curr_unique_letters(curr_einsum) ==
  Filter(curr_einsum, Range(ascii_lowercase))

\* The dict built by "for i, l in enumerate(letters): mapping[l] = vacant[i]":
\* a repeated letter keeps the entry written last.
FirstMapping(letters, vacant) ==
  [l \in Range(letters) |->
     << vacant[CHOOSE i \in DOMAIN letters :
                 /\ letters[i] = l
                 /\ \A j \in DOMAIN letters : letters[j] = l => j <= i] >>]

Min2(a, b) == IF a < b THEN a ELSE b

RECURSIVE SecondMapping(_, _, _, _)
\* The dict built by the loop over zip(fr_groups, to_groups), from pair n on:
\* [err, mapping], err "ValueError" when a pair of groups cannot be matched.
SecondMapping(fr_groups, to_groups, n, acc) ==
  IF acc.err # "None" THEN acc
  ELSE IF n > Min2(Len(fr_groups), Len(to_groups)) THEN acc
  ELSE LET fr == fr_groups[n]
           to == to_groups[n]
           mapping == acc.mapping
           next ==
             IF Len(fr) = 1
               THEN [err |-> "None",
                     mapping |-> [l \in DOMAIN mapping \cup {fr[1]} |->
                                    IF l = fr[1] THEN to ELSE mapping[l]]]
             ELSE IF Len(fr) = Len(to)
               THEN [err |-> "None",
                     mapping |-> [l \in DOMAIN mapping \cup Range(fr) |->
                                    IF l \in Range(fr)
                                      THEN << to[CHOOSE i \in DOMAIN fr :
                                                   /\ fr[i] = l
                                                   /\ \A j \in DOMAIN fr :
                                                        fr[j] = l => j <= i] >>
                                      ELSE mapping[l]]]
             ELSE [err |-> "ValueError", mapping |-> mapping]
       IN SecondMapping(fr_groups, to_groups, n + 1, next)

\* mapping = {}
EmptyMapping == [l \in {} |-> << >>]

\* isinstance(arg, WrappedTT) and arg.tt_einsum is not None
IsFusable(obj) == obj.wrapped /\ obj.tt_einsum # "None"

\* The labels that occur in a sequence of tt_einsum_cores
LabelsOf(cores) == UNION { Range(Concat(cores[k])) : k \in DOMAIN cores }

\* _fuse, lines 194-207: the producer, relabelled to new_curr_tt_einsum, is
\* spliced in.  second is the mapping of the outer labels of this position
\* to the labels of the producer's result; done is st.inlined with the note
\* of this pass.
Splice(st, arg, new_curr_tt_einsum, second, done) ==
  IF second.err # "None"
    THEN [st EXCEPT !.err = second.err, !.inlined = done]
  ELSE [st EXCEPT
          !.new_tt_einsum.args = @ \o new_curr_tt_einsum.args,
          !.tt_einsum.args = MapArgs(@, second.mapping),
          !.new_tt_einsum.res = apply_single_mapping(@, second.mapping),
          !.new_args = @ \o arg.inputs,
          !.spliced = @ \cup LabelsOf(new_curr_tt_einsum.args),
          !.inlined = done]

\* _fuse, lines 192-193: apply_mapping writes the relabelling into
\* arg.tt_einsum, the producing operation's own dict
Relabel(st, arg_idx, arg, note, mapping, new_curr_tt_einsum) ==
  Splice([st EXCEPT !.templates[arg.tt_einsum] = new_curr_tt_einsum],
         arg, new_curr_tt_einsum,
         SecondMapping(st.tt_einsum.args[arg_idx], new_curr_tt_einsum.res, 1,
                       [err |-> "None", mapping |-> EmptyMapping]),
         Append(st.inlined,
                [note EXCEPT !.given = UNION { Range(mapping[l]) :
                                               l \in DOMAIN mapping }]))

\* _fuse, lines 183-192, for a producer inner = arg.tt_einsum.  A note of
\* the pass is kept in st.inlined for the properties below: how many
\* distinct labels the producer uses, how many labels were vacant, the
\* labels it was given, and the labels that the producers spliced in before
\* it and the result of new_tt_einsum held.
Inline(st, arg_idx, arg, inner, vacant, letters) ==
  LET note == [at |-> arg_idx,
               op |-> arg.tt_einsum,
               distinct |-> Cardinality(Range(letters)),
               vacant |-> Len(vacant),
               given |-> {},
               before |-> st.spliced \cup Range(Concat(st.new_tt_einsum.res)),
               raised |-> FALSE]
  IN
  IF inner.type # "independent" THEN [st EXCEPT !.err = "AssertionError"]
  ELSE IF Len(letters) > Len(vacant)
    \* vacant_letters[i] with i past the end
    THEN [st EXCEPT !.err = "IndexError",
                    !.inlined = Append(@, [note EXCEPT !.raised = TRUE])]
  ELSE Relabel(st, arg_idx, arg, note, FirstMapping(letters, vacant),
               apply_mapping(inner, FirstMapping(letters, vacant)))

\* One pass of the loop body of _fuse, for args[arg_idx].  st holds the
\* locals tt_einsum (the deep copy), new_tt_einsum and new_args, the shared
\* dicts (templates) as the pass leaves them, and the exception raised.
FuseStep(st, arg_idx, args, objs) ==
  IF arg_idx > Len(st.tt_einsum.args) THEN [st EXCEPT !.err = "IndexError"]
  ELSE IF IsFusable(objs[args[arg_idx]])
    THEN Inline(st, arg_idx, objs[args[arg_idx]],
                st.templates[objs[args[arg_idx]].tt_einsum],
                vacant_letters(tt_to_vanilla_einsum(st.tt_einsum)),
                curr_unique_letters(tt_to_vanilla_einsum(
                  st.templates[objs[args[arg_idx]].tt_einsum])))
  ELSE [st EXCEPT
          !.new_tt_einsum.args = Append(@, st.tt_einsum.args[arg_idx]),
          !.new_args = Append(@, args[arg_idx])]

RECURSIVE FuseLoop(_, _, _, _)
\* for arg_idx, arg in enumerate(args), stopping at the first exception
FuseLoop(st, arg_idx, args, objs) ==
  IF st.err # "None" \/ arg_idx > Len(args) THEN st
  ELSE FuseLoop(FuseStep(st, arg_idx, args, objs), arg_idx + 1, args, objs)

\* _fuse, line 211: the entries of tt_einsum past the operands are appended
FuseEnd(st, n) ==
  IF st.err # "None" THEN st
  ELSE [st EXCEPT
          !.new_tt_einsum.args = @ \o SubSeq(st.tt_einsum.args, n + 1,
                                              Len(st.tt_einsum.args))]

\* _fuse(tt_einsum, args): the returned (new_tt_einsum, new_args), the shared
\* dicts as the call leaves them, and the exception raised ("None": none).
\* tt_einsum is passed by value: the function works on a deep copy.
_fuse(tt_einsum, args, objs, dicts) ==
  FuseEnd(FuseLoop([tt_einsum |-> tt_einsum,
                    new_tt_einsum |-> [type |-> tt_einsum.type, args |-> << >>,
                                       res |-> tt_einsum.res],
                    new_args |-> << >>,
                    templates |-> dicts,
                    spliced |-> {},
                    inlined |-> << >>,
                    err |-> "None"], 1, args, objs),
          Len(args))

\* ------------------------------------------------------------------------
\* The contraction of one core position, symbolically
\* ------------------------------------------------------------------------
\* A core is described by the leaf cores it is contracted from: ops names
\* the leaves in operand order, the axes of the k-th leaf core are numbered
\* after those of the leaves before it ("atoms"), rep gives every atom the
\* least atom it is identified with, and axes lists, for each axis of the
\* array, the atoms whose product it ranges over.  An atom that occurs in
\* no axis is summed over.  accIn lists the atoms the axes of the running
\* accumulator are identified with.

\* A core of a chain given as input: one atom per axis
LeafVal(name, ndim) ==
  [err |-> "None", ops |-> << name >>, rep |-> [i \in 1..ndim |-> i],
   axes |-> [i \in 1..ndim |-> << i >>], accIn |-> << >>]

ErrVal(e) ==
  [err |-> e, ops |-> << >>, rep |-> << >>, axes |-> << >>, accIn |-> << >>]

RECURSIVE TupFrom(_, _, _)
TupFrom(f, i, n) == IF i > n THEN << >> ELSE << f[i] >> \o TupFrom(f, i + 1, n)

\* The sequence f[1], ..., f[n]
Tup(f, n) == TupFrom(f, 1, n)

RECURSIVE Offset(_, _)
\* The number of atoms of the operands before the k-th
Offset(vals, k) ==
  IF k = 1 THEN 0 ELSE Offset(vals, k - 1) + Len(vals[k - 1].rep)

RECURSIVE MergeFrom(_, _, _, _, _)
MergeFrom(rep, rx, ry, m, i) ==
  IF i > Len(rep) THEN << >>
  ELSE << IF rep[i] \in {rx, ry} THEN m ELSE rep[i] >>
       \o MergeFrom(rep, rx, ry, m, i + 1)

\* Identify atoms x and y
Merge(rep, x, y) == MergeFrom(rep, rep[x], rep[y], Min2(rep[x], rep[y]), 1)

RECURSIVE MergeAll(_, _)
MergeAll(rep, pairs) ==
  IF pairs = << >> THEN rep
  ELSE MergeAll(Merge(rep, Head(pairs)[1], Head(pairs)[2]), Tail(pairs))

\* One slot for every letter of every chain operand's term: the letter and
\* the atoms of the axis it names
Slots(terms, vals, off, n) ==
  Concat(Tup([k \in 1..n |->
    Tup([p \in DOMAIN terms[k] |->
           [l |-> terms[k][p],
            ax |-> Tup([q \in DOMAIN vals[k].axes[p] |-> vals[k].axes[p][q] + off[k]],
                       Len(vals[k].axes[p]))]],
        Len(terms[k]))], n))

\* The first slot of every letter
FirstSlot(slots) ==
  [l \in { slots[i].l : i \in DOMAIN slots } |->
     CHOOSE i \in DOMAIN slots :
       slots[i].l = l /\ \A j \in DOMAIN slots : slots[j].l = l => i <= j]

\* The identifications the operands come with
Rep0(vals, off, n) ==
  Concat(Tup([k \in 1..n |->
    Tup([i \in DOMAIN vals[k].rep |-> vals[k].rep[i] + off[k]],
        Len(vals[k].rep))], n))

\* The atoms a repeated letter identifies
Pairs(slots, first) ==
  Concat(Tup([i \in DOMAIN slots |->
    Tup([q \in DOMAIN slots[i].ax |->
           << slots[first[slots[i].l]].ax[q], slots[i].ax[q] >>],
        Len(slots[i].ax))], Len(slots)))

\* The atoms of the axis a letter names
AxisOf(l, slots, first, rep) ==
  IF l \in DOMAIN first
    THEN Tup([q \in DOMAIN slots[first[l]].ax |-> rep[slots[first[l]].ax[q]]],
             Len(slots[first[l]].ax))
    ELSE << >>

\* The atoms of the axes a string of letters names, one after another
Axes(str, slots, first, rep) ==
  Concat(Tup([p \in DOMAIN str |-> AxisOf(str[p], slots, first, rep)], Len(str)))

\* The array oe.contract returns; an independent operation reshapes it so
\* that each of the three groups of res is one axis (lines 106-113)
Contracted3(tt_einsum, vals, n, accTerm, slots, first, rep) ==
  [err |-> "None",
   ops |-> Concat(Tup([k \in 1..n |-> vals[k].ops], n)),
   rep |-> rep,
   axes |-> IF tt_einsum.type = "running"
              THEN Tup([p \in DOMAIN Concat(tt_einsum.res) |->
                          AxisOf(Concat(tt_einsum.res)[p], slots, first, rep)],
                       Len(Concat(tt_einsum.res)))
              ELSE << Axes(tt_einsum.res[1], slots, first, rep),
                      Axes(tt_einsum.res[2], slots, first, rep),
                      Axes(Concat(SubSeq(tt_einsum.res, 3, Len(tt_einsum.res))),
                           slots, first, rep) >>,
   accIn |-> Axes(accTerm, slots, first, rep)]

\* What oe.contract checks of its operands before it contracts
Contracted2(tt_einsum, vals, n, accTerm, slots, first, rep0) ==
  \* every letter of the output occurs in an input
  IF \E p \in DOMAIN Concat(tt_einsum.res) :
       Concat(tt_einsum.res)[p] \notin DOMAIN first \cup Range(accTerm)
    THEN ErrVal("EinsumError")
  \* one letter, one size
  ELSE IF \E i \in DOMAIN slots : Len(slots[i].ax) # Len(slots[first[slots[i].l]].ax)
    THEN ErrVal("EinsumError")
  ELSE Contracted3(tt_einsum, vals, n, accTerm, slots, first,
                   MergeAll(rep0, Pairs(slots, first)))

Contracted1(tt_einsum, vals, n, acc_ndim, terms, off) ==
  IF \E k \in 1..n : vals[k].err # "None" THEN ErrVal("EinsumError")
  \* as many terms as operands
  ELSE IF Len(terms) # n + (IF tt_einsum.type = "running" THEN 1 ELSE 0)
    THEN ErrVal("EinsumError")
  \* as many letters in a term as the operand has axes
  ELSE IF \E k \in 1..n : Len(terms[k]) # Len(vals[k].axes) THEN ErrVal("EinsumError")
  ELSE IF tt_einsum.type = "running" /\ Len(terms[n + 1]) # acc_ndim
    THEN ErrVal("EinsumError")
  ELSE Contracted2(tt_einsum, vals, n,
                   IF tt_einsum.type = "running" THEN terms[n + 1] ELSE << >>,
                   Slots(terms, vals, off, n),
                   FirstSlot(Slots(terms, vals, off, n)),
                   Rep0(vals, off, n))

\* oe.contract(einsum, *operands) followed, for an independent operation, by
\* the reshape that merges each of the three groups of res into one axis.
\* vals are the cores of the chains; a running operation has the accumulator
\* as one more operand, an array of acc_ndim axes.
Contract(tt_einsum, vals, acc_ndim) ==
  Contracted1(tt_einsum, vals, Len(vals), acc_ndim, Terms(tt_einsum.args),
              Tup([k \in 1..Len(vals) |-> Offset(vals, k)], Len(vals)))

\* ------------------------------------------------------------------------
\* The program: compiled operations, called on chains, inside and outside
\* fuse
\* ------------------------------------------------------------------------

\* templates: the tt_einsum dict each compile_independent closure holds,
\*            by operation name (compile.py:88; the dict is the one object
\*            every node the operation returns points to);
\* objs:      the TT and WrappedTT objects created so far, in creation
\*            order; an object is named by its index;
\* log:       the oe.contract calls executed, one entry per operation call;
\* last:      the latest operation call: how it was invoked, what _fuse
\*            returned to it, and how it ended;
\* mode:      where the caller is: "start" (nothing called yet), "plain"
\*            (calling operations on the chains themselves), "fusing"
\*            (inside the function that fuse wraps), "done" (fuse returned),
\*            "raised" (an operation raised, which ends the run);
\* budget:    the number of operation calls still to be made;
\* quota:     the number of operation calls the fused function makes at most.
VARIABLES templates, objs, log, last, mode, budget, quota

vars == << templates, objs, log, last, mode, budget, quota >>

\* The longest chain given as input
MaxCores == 2
\* The number of operation calls of a fused function
MaxCalls == 3
\* The number of operation calls made outside fuse
MaxPlainCalls == 1
\* The number of operation calls of a fused function over the registered
\* operations
MaxFuseCalls == 2

\* ops.py: multiply
multiply ==
  [type |-> "independent",
   args |-> << << <<"a">>, <<"i">>, <<"b">> >>, << <<"c">>, <<"i">>, <<"d">> >> >>,
   res |-> << <<"a", "c">>, <<"i">>, <<"b", "d">> >>]

\* ops.py: flat_inner's main_loop
main_loop ==
  [type |-> "running",
   args |-> << << <<"a">>, <<"i">>, <<"b">> >>, << <<"c">>, <<"i">>, <<"d">> >>,
               << <<"a">>, <<"c">> >> >>,
   res |-> << <<"b">>, <<"d">> >>]

\* Two operations registered with compile besides those of ops.py: the
\* product of two TT-matrices (base_class.py, __matmul__) and the
\* elementwise product of three chains.
matmul ==
  [type |-> "independent",
   args |-> << << <<"a">>, <<"i", "j">>, <<"b">> >>,
               << <<"c">>, <<"j", "k">>, <<"d">> >> >>,
   res |-> << <<"a", "c">>, <<"i", "k">>, <<"b", "d">> >>]

multiply3 ==
  [type |-> "independent",
   args |-> << << <<"a">>, <<"i">>, <<"b">> >>, << <<"c">>, <<"i">>, <<"d">> >>,
               << <<"e">>, <<"i">>, <<"f">> >> >>,
   res |-> << <<"a", "c", "e">>, <<"i">>, <<"b", "d", "f">> >>]

\* The literal an operation was compiled from
Literal(op) ==
  CASE op = "multiply" -> multiply
    [] op = "matmul" -> matmul
    [] op = "multiply3" -> multiply3
    [] op = "flat_inner" -> main_loop

\* A chain given as input: a TT (cores of 3 axes) or a TTMatrix (4 axes)
Chain(name, ndim, ncores) ==
  [wrapped |-> FALSE, inputs |-> << >>, tt_einsum |-> "None",
   ncores |-> ncores, val |-> LeafVal(name, ndim), plain |-> LeafVal(name, ndim)]

\* WrappedTT(tt) (compile.py:33): inputs and tt_einsum are None
WrappedTT(obj) == [obj EXCEPT !.wrapped = TRUE]

NoFuse ==
  [new_tt_einsum |-> [type |-> "None", args |-> << >>, res |-> << >>],
   new_args |-> << >>, inlined |-> << >>, err |-> "None"]

NoCall ==
  [op |-> "None", args |-> << >>, is_fusing |-> FALSE, fuse |-> NoFuse,
   err |-> "None", contracted |-> 0, result |-> 0,
   val |-> ErrVal("None"), plain |-> ErrVal("None")]

\* The state after import, with two chains at hand, b no shorter than a
Init ==
  /\ templates = [op \in {"multiply"} |-> multiply]
  /\ \E na, nb \in 1..MaxCores :
       /\ na <= nb
       /\ objs = << Chain("a", 3, na), Chain("b", 3, nb) >>
  /\ log = << >>
  /\ last = NoCall
  /\ mode = "start"
  /\ budget = MaxPlainCalls
  /\ quota = MaxCalls

\* fuse._func, line 169: every argument is wrapped
fuse_enter ==
  /\ mode = "start"
  /\ objs' = objs \o [i \in DOMAIN objs |-> WrappedTT(objs[i])]
  /\ mode' = "fusing"
  /\ budget' = quota
  /\ UNCHANGED << templates, log, last, quota >>

\* fuse._func, lines 171-173: the function returns what its last call
\* returned; a WrappedTT is unwrapped
fuse_exit ==
  /\ mode = "fusing"
  /\ last.op # "None" /\ last.err = "None"
  /\ objs' = IF last.result # 0
               THEN Append(objs, [objs[last.result] EXCEPT
                                    !.wrapped = FALSE, !.inputs = << >>,
                                    !.tt_einsum = "None"])
               ELSE objs
  /\ mode' = "done"
  /\ UNCHANGED << templates, log, last, budget, quota >>

\* The objects the caller passes to an operation: inside the fused function
\* its wrapped arguments and the results built from them, outside it plain
\* chains.
Operands ==
  IF mode = "fusing" THEN { i \in DOMAIN objs : objs[i].wrapped }
  ELSE IF mode \in {"start", "plain"} THEN { i \in DOMAIN objs : ~objs[i].wrapped }
  ELSE {}

\* Outside fuse the caller goes on calling operations on plain chains; an
\* exception ends the run
AfterCall(err) ==
  IF err # "None" THEN "raised" ELSE IF mode = "start" THEN "plain" ELSE mode

RECURSIVE MinCores(_)
MinCores(ids) ==
  IF Len(ids) = 1 THEN objs[ids[1]].ncores
  ELSE Min2(objs[ids[1]].ncores, MinCores(Tail(ids)))

\* A new_func that kept the operands it was called with for the node
NodeInputsAsCalled(args, fused_args) == args

\* The WrappedTT inputs of the node an operation returns: args, which line 93
\* has rebound to the operands _fuse returned
NodeInputs(args, fused_args) == fused_args

\* lines 90-95 and 123-128: is_fusing, and the descriptor and operands the
\* evaluation runs on
Prepare(tt_einsum, args) ==
  IF \E k \in DOMAIN args : objs[args[k]].wrapped
    THEN _fuse(tt_einsum, args, objs, templates)
    ELSE [new_tt_einsum |-> tt_einsum, new_args |-> args,
          templates |-> templates, inlined |-> << >>, err |-> "None"]

FuseView(f) ==
  [new_tt_einsum |-> f.new_tt_einsum, new_args |-> f.new_args,
   inlined |-> f.inlined, err |-> f.err]

\* The exception a call ends with: _fuse's, or oe.contract's at the first
\* core, or that of tt.tt_cores[i] at the first i past the end of a chain
\* shorter than the first
Raised(f, core, n0, mn) ==
  IF f.err # "None" THEN f.err
  ELSE IF core.err # "None" THEN core.err
  ELSE IF mn < n0 THEN "IndexError"
  ELSE "None"

\* The number of oe.contract calls a call makes
Contractions(f, core, n0, mn) ==
  IF f.err # "None" \/ core.err # "None" THEN 0 ELSE Min2(n0, mn)

\* The cores of the operands, at one position
Cores(ids) == Tup([k \in DOMAIN ids |-> objs[ids[k]].val], Len(ids))

\* The same for the evaluation without fusion that is kept beside each object
PlainCores(ids) == Tup([k \in DOMAIN ids |-> objs[ids[k]].plain], Len(ids))

IsFusing(args) == \E k \in DOMAIN args : objs[args[k]].wrapped

\* compile_independent's new_func from line 96 on: f is what lines 90-95
\* left, core the core the loop computes at every position
independent_run(op, args, f, core, plain, err, contracted) ==
  /\ budget > 0
  /\ budget' = budget - 1
  /\ templates' = f.templates
  /\ mode' = AfterCall(err)
  /\ objs' = IF err # "None" THEN objs
             ELSE Append(objs,
                    [wrapped |-> IsFusing(args),
                     inputs |-> IF IsFusing(args) THEN NodeInputs(args, f.new_args)
                                ELSE << >>,
                     tt_einsum |-> IF IsFusing(args) THEN op ELSE "None",
                     ncores |-> objs[f.new_args[1]].ncores,
                     val |-> core, plain |-> plain])
  /\ log' = IF contracted = 0 THEN log
            ELSE Append(log, [op |-> op, leaves |-> f.new_args,
                              contracted |-> contracted,
                              produces |-> IF err = "None" THEN Len(objs) + 1 ELSE 0])
  /\ last' = [op |-> op, args |-> args, is_fusing |-> IsFusing(args),
              fuse |-> FuseView(f), err |-> err, contracted |-> contracted,
              result |-> IF err = "None" THEN Len(objs) + 1 ELSE 0,
              val |-> IF err = "None" THEN core ELSE ErrVal(err),
              plain |-> plain]
  /\ UNCHANGED quota

independent_eval(op, args, f, core, plain) ==
  independent_run(op, args, f, core, plain,
                  Raised(f, core, objs[f.new_args[1]].ncores, MinCores(f.new_args)),
                  Contractions(f, core, objs[f.new_args[1]].ncores,
                               MinCores(f.new_args)))

independent_fused(op, args, f) ==
  independent_eval(op, args, f, Contract(f.new_tt_einsum, Cores(f.new_args), 0),
                   Contract(Literal(op), PlainCores(args), 0))

\* compile_independent's new_func, called as op(*args)
independent_new_func(op, args) ==
  independent_fused(op, args, Prepare(templates[op], args))

\* jnp.squeeze of the last accumulator: the axes, all of size one, dropped
Squeeze(v) == IF v.err # "None" THEN v ELSE [v EXCEPT !.axes = << Concat(@) >>]

\* compile_running's new_func from line 129 on, and the squeeze of
\* flat_inner
running_run(args, f, core, plain, err, contracted) ==
  /\ budget > 0
  \* the value is an array, not a chain: the expression ends with it
  /\ budget' = 0
  /\ templates' = f.templates
  /\ mode' = AfterCall(err)
  /\ log' = IF contracted = 0 THEN log
            ELSE Append(log, [op |-> "flat_inner", leaves |-> f.new_args,
                              contracted |-> contracted, produces |-> 0])
  /\ last' = [op |-> "flat_inner", args |-> args, is_fusing |-> IsFusing(args),
              fuse |-> FuseView(f), err |-> err, contracted |-> contracted,
              result |-> 0,
              val |-> IF err = "None" THEN Squeeze(core) ELSE ErrVal(err),
              plain |-> Squeeze(plain)]
  /\ UNCHANGED << objs, quota >>

running_eval(args, f, core, plain) ==
  running_run(args, f, core, plain,
              Raised(f, core, objs[f.new_args[1]].ncores, MinCores(f.new_args)),
              Contractions(f, core, objs[f.new_args[1]].ncores, MinCores(f.new_args)))

running_fused(args, f) ==
  running_eval(args, f,
               Contract(f.new_tt_einsum, Cores(f.new_args), Len(f.new_args)),
               Contract(main_loop, PlainCores(args), Len(args)))

\* flat_inner(a, b): main_loop is compiled anew on every call, and
\* compile_running's new_func runs on it
flat_inner(args) == running_fused(args, Prepare(main_loop, args))

\* The number of chains an operation is called with
Arity(op) == Len(Literal(op).args) - (IF Literal(op).type = "running" THEN 1 ELSE 0)

ArgLists(n) == { s \in [1..n -> Operands] : TRUE }

Next ==
  \/ fuse_enter
  \/ fuse_exit
  \/ \E op \in DOMAIN templates : \E args \in ArgLists(Arity(op)) :
       independent_new_func(op, args)
  \/ \E args \in ArgLists(Arity("flat_inner")) : flat_inner(args)

Spec == Init /\ [][Next]_vars

\* The same program with matmul and multiply3 registered as well, and a
\* TT-matrix at hand
InitFuse ==
  /\ templates = [op \in {"multiply", "matmul", "multiply3"} |-> Literal(op)]
  /\ \E na, nb \in 1..MaxCores :
       objs = << Chain("a", 3, na), Chain("A", 4, nb) >>
  /\ log = << >>
  /\ last = NoCall
  /\ mode = "start"
  /\ budget = MaxPlainCalls
  /\ quota = MaxFuseCalls

SpecFuse == InitFuse /\ [][Next]_vars

\* ------------------------------------------------------------------------
\* Properties
\* ------------------------------------------------------------------------

\* The notes of the producers the latest _fuse call spliced in
Spliced == { n \in Range(last.fuse.inlined) : ~n.raised }

\* The latest call is one the fused function made
FusedCall == last.op # "None" /\ last.is_fusing

\* The chains given as input have the same number of cores
EqualLengths == objs[1].ncores = objs[2].ncores

\* C1: fusion transparency.  Over chains of equal length, a call the fused
\* function makes raises nothing and its value is the value the same
\* expression has when every operation is evaluated on its own: the same leaf
\* cores, the same identified axes, the same summed axes.
FusionTransparent ==
  (FusedCall /\ EqualLengths) => (last.err = "None" /\ last.val = last.plain)

\* C2: no materialization of intermediates.  An operand of a call the fused
\* function makes is a leaf or a node that stands for an operation not yet
\* evaluated: no oe.contract call was executed that produced its cores.
NoMaterialization ==
  FusedCall =>
    \A i \in DOMAIN log : \A k \in DOMAIN last.args :
       log[i].produces # last.args[k]

\* C3: descriptor immutability.  The dict every compiled operation holds,
\* which is the dict its nodes point to, equals the literal it was compiled
\* from.
DescriptorsImmutable ==
  \A op \in DOMAIN templates : templates[op] = Literal(op)

\* C4: provenance records exactly one operation.  The node an independent
\* operation returns inside fuse stores the operands the operation was called
\* with, one for each args entry of the descriptor it stores.
ProvenanceRecordsOperands ==
  (FusedCall /\ last.result # 0) =>
     /\ objs[last.result].inputs = last.args
     /\ Len(objs[last.result].inputs)
          = Len(Literal(objs[last.result].tt_einsum).args)

\* C5: chains of any length fuse consistently.  The descriptor a _fuse call
\* returns has one args entry for each operand it returns, followed by the
\* entries of the template that stand for no operand.
ChainsFuseConsistently ==
  (FusedCall /\ last.fuse.err = "None") =>
     Len(last.fuse.new_tt_einsum.args)
       = Len(last.fuse.new_args) + (Len(Literal(last.op).args) - Arity(last.op))

\* C6: flattened operands are leaves.  No operand the latest _fuse call
\* returned, or had collected when it raised, is a node that carries a
\* producing descriptor.
FlattenedOperandsAreLeaves ==
  FusedCall =>
    \A k \in DOMAIN last.fuse.new_args : ~IsFusable(objs[last.fuse.new_args[k]])

\* C6, the case: a _fuse call has returned the operands of a producer that
\* was itself computed from a producer.
FlattenedThroughTwoLevels ==
  /\ FusedCall
  /\ last.fuse.err = "None"
  /\ \E k \in DOMAIN last.args :
       /\ IsFusable(objs[last.args[k]])
       /\ Len(objs[last.args[k]].inputs)
            > Len(Literal(objs[last.args[k]].tt_einsum).args)
  /\ Len(last.fuse.new_args) > Len(last.args)

\* C7: label collision freedom.  The labels a producer is given when it is
\* spliced in are labels of no producer spliced in before it in the same
\* pass and of no group of the result built so far.
LabelCollisionFree ==
  \A n \in Spliced : n.given \cap n.before = {}

\* C8: length mismatch is rejected.  A call on chains that differ in their
\* number of cores raises, before any oe.contract call is executed.
LengthMismatchRejected ==
  (last.op # "None"
     /\ \E j, k \in DOMAIN last.args :
          objs[last.args[j]].ncores # objs[last.args[k]].ncores)
  => (last.err # "None" /\ last.contracted = 0)

\* C9: multi-producer inlining threads shared axes.  multiply and main_loop
\* name the dims axis of every chain operand by the one label i; when a pass
\* has spliced in two producers or more, the dims group is the same in every
\* args entry of a chain operand of the combined descriptor.
SharedAxesThreaded ==
  (FusedCall /\ last.fuse.err = "None" /\ Cardinality(Spliced) >= 2) =>
     \A j, k \in DOMAIN last.fuse.new_tt_einsum.args :
        (Len(last.fuse.new_tt_einsum.args[j]) = 3
           /\ Len(last.fuse.new_tt_einsum.args[k]) = 3)
        => last.fuse.new_tt_einsum.args[j][2] = last.fuse.new_tt_einsum.args[k][2]

\* C10: alphabet exhaustion condition.  Inlining a producer raises exactly
\* when the producer uses more distinct labels than there are vacant ones.
ExhaustionExact ==
  \A n \in Range(last.fuse.inlined) : n.raised <=> n.distinct > n.vacant

====
